---- MODULE Spec2Model ----
(***************************************************************************)
(* The XRootD client message handler (XrdCl::XRootDMsgHandler), its        *)
(* counted self reference (XrdCl::MsgHandlerRef) and the MessageUtils      *)
(* entry points that create it (SendMessage, ProcessSendParams).           *)
(*                                                                         *)
(* One request is followed from ProcessSendParams/SendMessage to the       *)
(* delivery of its result.  MsgHandlerRef, the constructor, the            *)
(* destructor, the setters, SendMessage and ProcessSendParams are          *)
(* translated from the sources.  The response processing of the handler    *)
(* (Process, HandleError, HandleResponse, OnStreamEvent, OnStatusReady,    *)
(* WaitDone, the wait task) is implemented in XrdClXRootDMsgHandler.cc,    *)
(* of which only the declarations are at hand; those operations follow     *)
(* the design description (sections 4.5 to 4.9 and 5).                     *)
(***************************************************************************)
EXTENDS Integers, Sequences, FiniteSets, TLC

VARIABLES
  now,         \* wall clock, ::time(0)
  sendParams,  \* MessageSendParams of the request
  pc,          \* caller position: "params", "send", "sent", "failed"
  h,           \* the XRootDMsgHandler object (fields p...), alive or not
  cell,        \* the MsgHandlerRef cell: ref, count, and how often deleted
  tasks,       \* wait tasks registered with the task manager
  sidLog,      \* SIDManager calls in program order: <<op, host>>
  cb,          \* what the ResponseHandler has received
  hist,        \* history: redirects seen and followed, retries, wake-ups
  reader,      \* the raw-body reader fields of the handler and what it read
  socket,      \* the socket a raw body is read from: stream, pos, avail
  cgi,         \* MergeCGI: cgi1 before and after, cgi2, replace, calls made
  msg,         \* the request Message that RewriteCGIAndPath works on
  xattr        \* CreateXAttrVec: the attributes, the vector before and after

vars == <<now, sendParams, pc, h, cell, tasks, sidLog, cb, hist, reader, socket,
         cgi, msg, xattr>>

----------------------------------------------------------------------------
\* Bounds of the model

\* number of endpoints (URLs); the request is first sent to Origin
NumHosts == 2
\* last clock value
MaxTime == 3
\* the timeout / redirect limit of a caller that sets them in
\* MessageSendParams (0 stands for not set)
MaxTimeout == 1
MaxRedirectLimit == 2
\* the values the environment holds for "RequestTimeout" and "RedirectLimit"
EnvRequestTimeout == 2
EnvRedirectLimit == 1
\* largest delay a kXR_wait reply asks for
MaxWait == 2
\* number of kXR_oksofar frames and of retried errors
MaxPartials == 1
\* longest body read by ReadRawOther, and chunks in a kXR_readv response
\* keys of a CGI map, and calls of MergeCGI with the same arguments
NumKeys == 2
MaxMerges == 2
\* calls of RewriteCGIAndPath on one request
MaxRewrites == 2
MaxBody == 3
MaxServerChunks == 2
\* segments of a segmented answer and the payloads they carry
MaxSegments == 2
NumPayloads == 2
\* the payload of the final response
Final == 0
MaxRetries == 1

Hosts == 1..NumHosts
Origin == 1
NoHost == 0
UInt16 == 65536

Min_First(a, b) == a

Min(a, b) == IF a <= b THEN a ELSE b

\* the entries of a list
Range(s) == {s[i] : i \in 1..Len(s)}

----------------------------------------------------------------------------
\* MsgHandlerRef

\* MsgHandlerRef( handler ): ref( handler ), count( 1 )
MsgHandlerRef == [ref |-> TRUE, count |-> 1, deleted |-> 0]

\* the cell before the handler is constructed
NoCell == [ref |-> FALSE, count |-> 0, deleted |-> 0]

Self_NoCount(c) == c

\* Self(): ++count
Self(c) == [c EXCEPT !.count = (c.count + 1) % UInt16]

Invalidate_Keep(c) == c

\* Invalidate(): ref = 0
Invalidate(c) == [c EXCEPT !.ref = FALSE]

Free_OffByOne(c) ==
  LET n == (c.count - 1) % UInt16
  IN  [c EXCEPT !.count = n,
                !.deleted = IF n <= 1 THEN c.deleted + 1 ELSE c.deleted]

\* Free(): --count; if( count == 0 ) delete this
Free(c) ==
  LET n == (c.count - 1) % UInt16
  IN  [c EXCEPT !.count = n,
                !.deleted = IF n = 0 THEN c.deleted + 1 ELSE c.deleted]

----------------------------------------------------------------------------
\* XRootDMsgHandler: construction, setters, destruction

NoHandler ==
  [alive |-> FALSE, state |-> "Init", pUrl |-> NoHost, pSidMgr |-> NoHost,
   pExpiration |-> 0, pRedirectCounter |-> 0, pHosts |-> << >>,
   pHasLoadBalancer |-> FALSE, pLoadBalancer |-> NoHost, pStatus |-> "none",
   pMsgInFly |-> FALSE, pPartialResps |-> << >>, pAggregatedWaitTime |-> 0,
   pHasSessionId |-> FALSE, pResponse |-> FALSE,
   \* what the destructor has deleted: pRequest, pResponse
   requestFreed |-> 0, responseFreed |-> 0,
   \* the tried= CGI of pRequest
   tried |-> << >>]

XRootDMsgHandler_NoSidMgr(url, sidMgr, sessionId) ==
  [NoHandler EXCEPT !.alive = TRUE, !.pUrl = url, !.pSidMgr = NoHost,
                    !.pHasSessionId = sessionId]

\* the constructor: pUrl( *url ), pSidMgr( sidMgr ), everything else zero,
\* pHasSessionId from msg->GetSessionId()
XRootDMsgHandler(url, sidMgr, sessionId) ==
  [NoHandler EXCEPT !.alive = TRUE, !.pUrl = url, !.pSidMgr = sidMgr,
                    !.pHasSessionId = sessionId]

SetExpiration_Late(hh, expiration) == [hh EXCEPT !.pExpiration = expiration + 1]

SetExpiration(hh, expiration) == [hh EXCEPT !.pExpiration = expiration]

SetRedirectCounter_Less(hh, redirectCounter) ==
  [hh EXCEPT !.pRedirectCounter = (redirectCounter - 1) % UInt16]

SetRedirectCounter_Twice(hh, redirectCounter) ==
  [hh EXCEPT !.pRedirectCounter = (2 * redirectCounter) % UInt16]

\* pRedirectCounter is a uint16_t
SetRedirectCounter(hh, redirectCounter) ==
  [hh EXCEPT !.pRedirectCounter = redirectCounter % UInt16]

SetLoadBalancer_Invalid(hh, loadBalancer) ==
  [hh EXCEPT !.pLoadBalancer = loadBalancer, !.pHasLoadBalancer = TRUE]

\* if( !loadBalancer.url.IsValid() ) return; an invalid URL is NoHost
SetLoadBalancer(hh, loadBalancer) ==
  IF loadBalancer = NoHost THEN hh
  ELSE [hh EXCEPT !.pLoadBalancer = loadBalancer, !.pHasLoadBalancer = TRUE]

SetHostList_Dropped(hh, hostList) == [hh EXCEPT !.pHosts = << >>]

\* delete pHosts; pHosts = hostList
SetHostList(hh, hostList) == [hh EXCEPT !.pHosts = hostList]

Destructor_FreeAlways(hh) ==
  [hh EXCEPT !.alive = FALSE,
             !.requestFreed = @ + 1,
             !.responseFreed = IF hh.pResponse THEN @ + 1 ELSE @,
             !.pResponse = FALSE,
             !.pPartialResps = << >>]

\* ~XRootDMsgHandler(): if( !pHasSessionId ) delete pRequest;
\* delete pResponse; delete every partial response
Destructor(hh) ==
  [hh EXCEPT !.alive = FALSE,
             !.requestFreed = IF hh.pHasSessionId THEN @ ELSE @ + 1,
             !.responseFreed = IF hh.pResponse THEN @ + 1 ELSE @,
             !.pResponse = FALSE,
             !.pPartialResps = << >>]

----------------------------------------------------------------------------
\* SIDManager calls, kept in program order

AllocateSID(log, host) == Append(log, <<"alloc", host>>)
ReleaseSID(log, host) == Append(log, <<"release", host>>)

----------------------------------------------------------------------------
\* MessageUtils::ProcessSendParams

ProcessSendParams_Always(p, time) ==
  LET timeout == IF p.timeout = 0 THEN EnvRequestTimeout ELSE p.timeout
      limit   == IF p.redirectLimit = 0 THEN EnvRedirectLimit ELSE p.redirectLimit
  IN  [p EXCEPT !.timeout = timeout, !.expires = time + timeout,
                !.redirectLimit = limit]

ProcessSendParams(p, time) ==
  LET timeout == IF p.timeout = 0 THEN EnvRequestTimeout ELSE p.timeout
      expires == IF p.expires = 0 THEN time + timeout ELSE p.expires
      limit   == IF p.redirectLimit = 0 THEN EnvRedirectLimit ELSE p.redirectLimit
  IN  [p EXCEPT !.timeout = timeout, !.expires = expires, !.redirectLimit = limit]

ProcessSendParamsStep ==
  /\ pc = "params"
  /\ sendParams' = ProcessSendParams(sendParams, now)
  /\ pc' = "send"
  /\ UNCHANGED <<now, h, cell, tasks, sidLog, cb, hist,
               reader, socket, cgi, msg, xattr>>

\* ProcessSendParams applied to its own result, before the request is sent
ProcessSendParamsAgain ==
  /\ pc = "send"
  /\ sendParams' = ProcessSendParams(sendParams, now)
  /\ pc' = "processed"
  /\ UNCHANGED <<now, h, cell, tasks, sidLog, cb, hist,
                 reader, socket, cgi, msg, xattr>>

\* time passes before the request is sent
Clock ==
  /\ pc \in {"params", "send"}
  /\ now < MaxTime
  /\ now' = now + 1
  /\ UNCHANGED <<sendParams, pc, h, cell, tasks, sidLog, cb, hist,
                 reader, socket, cgi, msg, xattr>>

----------------------------------------------------------------------------
\* MessageUtils::SendMessage

SendMessageHandler_ExpiresPlusTimeout(url, p) ==
  SetHostList(
    SetLoadBalancer(
      SetRedirectCounter(
        SetExpiration(XRootDMsgHandler(url, url, p.sessionId),
                      p.expires + p.timeout),
        p.redirectLimit),
      p.loadBalancer),
    <<url>>)

\* the handler as set up before postMaster->Send
SendMessageHandler(url, p) ==
  SetHostList(
    SetLoadBalancer(
      SetRedirectCounter(
        SetExpiration(XRootDMsgHandler(url, url, p.sessionId), p.expires),
        p.redirectLimit),
      p.loadBalancer),
    <<url>>)

SendMessageFailure_NoRelease(r) ==
  [r EXCEPT !.h = Destructor(r.h), !.cell = Free(r.cell)]

\* req->streamid, read from the request buffer: the SID held at the
\* endpoint while the buffer is there, anything once it has been freed
StreamId(hh) == IF hh.requestFreed = 0 THEN hh.pUrl ELSE NoHost

SendMessageFailure_DeleteFirst(r) ==
  LET deleted == [r EXCEPT !.h = Destructor(r.h), !.cell = Free(r.cell)]
  IN  [deleted EXCEPT !.sidLog = ReleaseSID(@, StreamId(deleted.h))]

\* postMaster->Send failed: ReleaseSID, delete msgHandler, delete list
SendMessageFailure(r) ==
  LET released == [r EXCEPT !.sidLog = ReleaseSID(@, StreamId(r.h))]
  IN  [released EXCEPT !.h = Destructor(released.h),
                       !.cell = Free(released.cell)]

\* PostMaster.Send has accepted the request: the handler is armed for the
\* response and the outbound message is in flight until OnStatusReady
InFly(hh) == [hh EXCEPT !.state = "InFlight", !.pMsgInFly = TRUE]

SendMessage(queryOk, allocOk, sendOk) ==
  /\ pc = "send"
  /\ IF ~queryOk \/ ~allocOk
       THEN \* return st: nothing allocated, no handler created
            /\ pc' = "failed"
            /\ UNCHANGED <<h, cell, sidLog, hist>>
       ELSE LET r == [h |-> SendMessageHandler(Origin, sendParams),
                      cell |-> MsgHandlerRef,
                      sidLog |-> AllocateSID(sidLog, Origin)]
            IN  IF sendOk
                  THEN /\ pc' = "sent"
                       /\ h' = InFly(r.h)
                       /\ cell' = r.cell
                       /\ sidLog' = r.sidLog
                       /\ UNCHANGED hist
                  ELSE /\ pc' = "failed"
                       /\ h' = SendMessageFailure(r).h
                       /\ cell' = SendMessageFailure(r).cell
                       /\ sidLog' = SendMessageFailure(r).sidLog
                       /\ UNCHANGED hist
  /\ UNCHANGED <<now, sendParams, tasks, cb, reader, socket, cgi, msg, xattr>>

----------------------------------------------------------------------------
\* MessageUtils::RedirectMessage

RedirectMessageHandler_WithSidMgr(url, p) ==
  SetHostList(
    SetLoadBalancer(
      SetRedirectCounter(
        SetExpiration(XRootDMsgHandler(url, url, p.sessionId), p.expires),
        p.redirectLimit),
      url),
    <<url>>)

\* the handler as set up before postMaster->Redirect: no SID manager, the
\* URL of the virtual redirector as load balancer and first host
RedirectMessageHandler(url, p) ==
  SetHostList(
    SetLoadBalancer(
      SetRedirectCounter(
        SetExpiration(XRootDMsgHandler(url, NoHost, p.sessionId), p.expires),
        p.redirectLimit),
      url),
    <<url>>)

\* postMaster->Redirect failed: delete msgHandler, delete list
RedirectMessageFailure(r) ==
  [r EXCEPT !.h = Destructor(r.h), !.cell = Free(r.cell)]

\* PostMaster.Redirect has accepted the request: the handler is armed for
\* the answer of the virtual redirector; nothing is on a socket
Armed(hh) == [hh EXCEPT !.state = "InFlight"]

RedirectMessage(registerOk, postMasterOk, redirectOk) ==
  /\ pc = "send"
  /\ IF ~registerOk \/ ~postMasterOk
       THEN \* return st: no handler created
            /\ pc' = "failed"
            /\ UNCHANGED <<h, cell, sendParams>>
       ELSE LET r == [h |-> RedirectMessageHandler(Origin, sendParams),
                      cell |-> MsgHandlerRef]
            IN  /\ sendParams' = [sendParams EXCEPT !.loadBalancer = Origin]
                /\ IF redirectOk
                     THEN /\ pc' = "sent"
                          /\ h' = Armed(r.h)
                          /\ cell' = r.cell
                     ELSE /\ pc' = "failed"
                          /\ h' = RedirectMessageFailure(r).h
                          /\ cell' = RedirectMessageFailure(r).cell
  /\ UNCHANGED <<now, tasks, sidLog, cb, hist, reader, socket, cgi, msg, xattr>>

----------------------------------------------------------------------------
\* The handler's response processing (XrdClXRootDMsgHandler.cc)

\* the objects one handler step works on
World == [h |-> h, sidLog |-> sidLog, cell |-> cell, tasks |-> tasks,
          hist |-> hist, cb |-> cb]

Apply(w) ==
  /\ h' = w.h
  /\ sidLog' = w.sidLog
  /\ cell' = w.cell
  /\ tasks' = w.tasks
  /\ hist' = w.hist
  /\ cb' = w.cb

\* the deadline test made by every attempted Send, Redirect and wake-up
Expired(hh) == now >= hh.pExpiration

\* a terminal condition: the final status is known; an ok or error answer
\* of the server is kept as pResponse
Finish(w, status) ==
  [w EXCEPT !.h = [w.h EXCEPT !.state = "Completed", !.pStatus = status,
                             !.pResponse = status \in {"OK", "errErrorResponse"}]]

\* Process, kXR_oksofar: the frame is kept behind the ones kept before
StorePartial_First(partials, payload) == <<payload>> \o partials

StorePartial(partials, payload) == Append(partials, payload)

\* ParseResponse: the partial responses in the order they are kept, then
\* the final response; there is something to parse only when the status
\* is OK
ParseResponse(hh) ==
  IF hh.pStatus = "OK" THEN Append(hh.pPartialResps, Final) ELSE << >>

\* HandleResponse: release the SID, call the ResponseHandler with
\* (status, hosts), invalidate the self reference; delete this follows
HandleResponse(w) ==
  [w EXCEPT !.sidLog = IF w.h.pSidMgr # NoHost
                         THEN ReleaseSID(w.sidLog, w.h.pSidMgr) ELSE @,
            !.cb = [count |-> w.cb.count + 1, status |-> w.h.pStatus,
                    hosts |-> w.h.pHosts,
                    response |-> ParseResponse(w.h)],
            !.cell = Invalidate(w.cell),
            !.h = [w.h EXCEPT !.state = "Terminal"]]

CanReport_Always(hh) == TRUE

\* completion is reported once the message is no longer in flight, or the
\* stream failed fatally
CanReport(hh) == ~hh.pMsgInFly \/ hh.pStatus = "stFatal"

Deliver(w) ==
  IF w.h.state = "Completed" /\ CanReport(w.h) THEN HandleResponse(w) ELSE w

\* PostMaster.Send( url, request, this, ... ) of a request that is resent
Resend(w) == [w EXCEPT !.h = InFly(w.h)]

\* history: how an operation attempted after the deadline that the caller
\* set has ended, "sent" or "expired"
Attempt(w, r) ==
  IF now > sendParams.expires
    THEN [r EXCEPT !.hist = [r.hist EXCEPT !.lateAttempt =
                     IF r.h.state = "InFlight" THEN "sent"
                     ELSE IF @ = "sent" THEN @ ELSE "expired"]]
    ELSE r

\* the request moves to another endpoint: the SID held at the old one is
\* released, then a SID is allocated at the new one
MoveSid(w, url) ==
  LET released == IF w.h.pSidMgr # NoHost
                    THEN ReleaseSID(w.sidLog, w.h.pSidMgr) ELSE w.sidLog
  IN  [w EXCEPT !.sidLog = AllocateSID(released, url),
                !.h = [w.h EXCEPT !.pSidMgr = url, !.pUrl = url,
                                  !.pHosts = Append(@, url)]]

\* RetryAtServer: resend at url unless the deadline has passed
RetryAtServerOf(w, url) ==
  IF Expired(w.h) THEN Finish(w, "errOperationExpired")
  ELSE Resend(IF url = w.h.pUrl THEN w ELSE MoveSid(w, url))

RetryAtServer(w, url) == Attempt(w, RetryAtServerOf(w, url))

\* kXR_redirect: the budget is checked, then decremented; the first redirect
\* makes the origin the load balancer
ProcessRedirectOf(w, url) ==
  IF w.h.pRedirectCounter = 0 THEN Finish(w, "errRedirectLimit")
  ELSE IF Expired(w.h) THEN Attempt(w, Finish(w, "errOperationExpired"))
  ELSE LET counted == [w.h EXCEPT !.pRedirectCounter = (@ - 1) % UInt16]
           lb == IF counted.pHasLoadBalancer THEN counted
                 ELSE [counted EXCEPT !.pHasLoadBalancer = TRUE,
                                      !.pLoadBalancer = counted.pUrl]
       IN  Attempt(w, Resend(MoveSid(
             [w EXCEPT !.h = lb,
                       !.hist = [w.hist EXCEPT
                         !.followed = @ + 1,
                         !.backToTried = @ \/ url \in Range(w.h.tried)]],
             url)))

ProcessRedirect(w, url) ==
  ProcessRedirectOf([w EXCEPT !.hist = [w.hist EXCEPT !.redirects = @ + 1]], url)

\* kXR_wait: the delay is clamped to the remaining time; a wait task holding
\* the self reference wakes the handler up
ProcessWait(w, seconds) ==
  LET clamped == Min(seconds, w.h.pExpiration - now)
  IN  IF clamped <= 0 THEN Finish(w, "errOperationExpired")
      ELSE [w EXCEPT !.tasks = @ \cup {[time |-> now + clamped, pc |-> "pending",
                                       clamped |-> clamped < seconds]},
                     !.cell = Self(w.cell),
                     !.h = [w.h EXCEPT !.state = "Waiting",
                                       !.pAggregatedWaitTime = @ + clamped]]

UpdateTriedCGI_LoadBalancer(w) ==
  [w EXCEPT !.h = [w.h EXCEPT !.tried = Append(@, w.h.pLoadBalancer)]]

\* UpdateTriedCGI: the host at which the request failed is appended to the
\* tried= CGI of the request, before the retry at the load balancer
UpdateTriedCGI(w) ==
  [w EXCEPT !.h = [w.h EXCEPT !.tried = Append(@, w.h.pUrl)]]

\* where a recoverable error is retried: at the load balancer if there is one
\* and it is not the current host, else at the current host
RetryTarget(hh) ==
  IF hh.pHasLoadBalancer /\ hh.pLoadBalancer # hh.pUrl
    THEN hh.pLoadBalancer ELSE hh.pUrl

Retried(w) == [w EXCEPT !.hist = [w.hist EXCEPT !.retries = @ + 1]]

\* kXR_error: a recoverable code is retried at the load balancer when it is
\* not the current host; anything else is final
ProcessError(w, recoverable) ==
  IF recoverable /\ w.h.pHasLoadBalancer /\ w.h.pLoadBalancer # w.h.pUrl
    THEN RetryAtServer(Retried(UpdateTriedCGI(w)),
                       w.h.pLoadBalancer)
    ELSE Finish(w, "errErrorResponse")

\* HandleError for a transport error: retried when the request is retryable
HandleError(w, status, retryable) ==
  IF Expired(w.h) THEN Finish(w, "errOperationExpired")
  ELSE IF retryable
    THEN IF RetryTarget(w.h) # w.h.pUrl
           THEN RetryAtServer(Retried(UpdateTriedCGI(w)),
                              RetryTarget(w.h))
           ELSE RetryAtServer(Retried(w), w.h.pUrl)
  ELSE Finish(w, status)

ProcessWaitResp_AsAnswer(w) == Finish(w, "OK")

\* kXR_waitresp: the answer will come later, unsolicited; nothing is done
ProcessWaitResp(w) == w

\* a response frame, by its status word
ProcessFrame(w, f) ==
  CASE f.kind = "ok"       -> Finish(w, "OK")
    [] f.kind = "oksofar"  ->
         [w EXCEPT !.h = [w.h EXCEPT !.pPartialResps = StorePartial(@, f.arg)]]
    [] f.kind = "error"    -> ProcessError(w, f.arg = 1)
    [] f.kind = "redirect" -> ProcessRedirect(w, f.arg)
    [] f.kind = "wait"     -> ProcessWait(w, f.arg)
    [] f.kind = "waitresp" -> ProcessWaitResp(w)
    [] f.kind = "status"   ->
         IF f.arg = 1 THEN w ELSE Finish(w, "errInvalidResponse")
    [] OTHER -> w

\* the frames a server can answer with; attn wraps a frame
PlainFrames ==
  [kind : {"ok", "waitresp"}, arg : {0}]
    \cup [kind : {"oksofar"}, arg : {Len(h.pPartialResps) + 1}]
    \cup [kind : {"error", "status"}, arg : {0, 1}]
    \cup [kind : {"redirect"}, arg : Hosts]
    \cup [kind : {"wait"}, arg : 1..MaxWait]

\* what keeps the run finite: the server stops sending partial responses
\* and recoverable errors after a while
Allowed(f) ==
  /\ f.kind = "oksofar" => Len(h.pPartialResps) < MaxPartials
  /\ f.kind = "error" /\ f.arg = 1 => hist.retries < MaxRetries

\* Examine + Process of a frame carrying the handler's SID
Process(f) ==
  /\ h.alive /\ h.state = "InFlight"
  /\ Allowed(f)
  /\ Apply(Deliver(ProcessFrame(World, f)))
  /\ UNCHANGED <<now, sendParams, pc, reader, socket, cgi, msg, xattr>>

\* a kXR_oksofar frame of an answer that the server sends in segments
ProcessSegment(payload) ==
  /\ h.alive /\ h.state = "InFlight"
  /\ Len(h.pPartialResps) < MaxSegments
  /\ Apply(Deliver(ProcessFrame(World, [kind |-> "oksofar",
                                        arg |-> payload])))
  /\ UNCHANGED <<now, sendParams, pc, reader, socket, cgi, msg, xattr>>

\* kXR_attn carrying an embedded response, which is taken as the answer
ProcessAttn(f) ==
  /\ h.alive /\ h.state = "InFlight"
  /\ f.kind \in {"ok", "error", "redirect"}
  /\ Allowed(f)
  /\ Apply(Deliver(ProcessFrame(World, f)))
  /\ UNCHANGED <<now, sendParams, pc, reader, socket, cgi, msg, xattr>>

\* OnStreamEvent: Timeout when the deadline has passed, FatalError, Broken
OnStreamEvent(event, retryable) ==
  /\ h.alive
  /\ CASE event = "Timeout" ->
            /\ h.state = "InFlight" /\ Expired(h)
            /\ Apply(Deliver(Finish(World, "errOperationExpired")))
       [] event = "FatalError" ->
            /\ h.state \in {"InFlight", "Waiting"}
            /\ Apply(Deliver(Finish(World, "stFatal")))
       [] event = "Broken" ->
            /\ h.state = "InFlight"
            /\ retryable => hist.retries < MaxRetries
            /\ Apply(Deliver(HandleError(World, "errSocketError",
                                         retryable)))
  /\ UNCHANGED <<now, sendParams, pc, reader, socket, cgi, msg, xattr>>

\* OnStatusReady: the outbound message has left the socket, or could not
OnStatusReady(ok, retryable) ==
  /\ h.alive /\ h.pMsgInFly
  /\ h.state \in {"InFlight", "Waiting", "Completed"}
  /\ LET w == [World EXCEPT !.h = [h EXCEPT !.pMsgInFly = FALSE]]
     IN  IF ok THEN Apply(Deliver(w))
         ELSE /\ h.state = "InFlight"
              /\ retryable => hist.retries < MaxRetries
              /\ Apply(Deliver(HandleError(w, "errSocketError",
                                           retryable)))
  /\ UNCHANGED <<now, sendParams, pc, reader, socket, cgi, msg, xattr>>

WaitDone_AtLoadBalancer(w) == RetryAtServer(w, RetryTarget(w.h))

\* WaitDone( now ): resend to the same URL unless the deadline has passed
WaitDone(w) == RetryAtServer(w, w.h.pUrl)

\* the wait task fires: it locks the cell and calls WaitDone if the
\* handler pointer is still set
WaitTaskRun(t) ==
  /\ t \in tasks /\ t.pc = "pending" /\ t.time <= now
  /\ LET ran == [World EXCEPT
                  !.tasks = (@ \ {t}) \cup
                            {[t EXCEPT !.pc = IF cell.ref THEN "ran" ELSE "skipped",
                                       !.clamped = FALSE]},
                  !.hist = [hist EXCEPT
                    !.waitDoneOnDead = @ \/ (cell.ref /\ ~h.alive)]]
     IN  IF cell.ref THEN Apply(Deliver(WaitDone(ran))) ELSE Apply(ran)
  /\ UNCHANGED <<now, sendParams, pc, reader, socket, cgi, msg, xattr>>

\* the wait task drops its reference; freedBy: whose Free deleted the cell
WaitTaskFree(t) ==
  /\ t \in tasks /\ t.pc \in {"ran", "skipped"}
  /\ tasks' = tasks \ {t}
  /\ cell' = Free(cell)
  /\ hist' = [hist EXCEPT !.freedBy =
                IF cell'.deleted > cell.deleted THEN "task" ELSE @]
  /\ UNCHANGED <<now, sendParams, pc, h, sidLog, cb, reader, socket, cgi, msg, xattr>>

\* delete this, at the end of HandleResponse
Destroy ==
  /\ h.alive /\ h.state = "Terminal"
  /\ h' = Destructor(h)
  /\ cell' = Free(cell)
  /\ hist' = [hist EXCEPT !.freedBy =
                IF cell'.deleted > cell.deleted THEN "handler" ELSE @]
  /\ UNCHANGED <<now, sendParams, pc, tasks, sidLog, cb,
               reader, socket, cgi, msg, xattr>>

\* the clock, as long as the handler or a wait task is there to see it
Tick ==
  /\ pc = "sent"
  /\ h.alive \/ tasks # {}
  /\ now < MaxTime
  /\ now' = now + 1
  /\ UNCHANGED <<sendParams, pc, h, cell, tasks, sidLog, cb, hist,
               reader, socket, cgi, msg, xattr>>

----------------------------------------------------------------------------
\* Raw-body readers: ReadRawRead, ReadRawReadV, ReadRawOther over ReadAsync

\* a readahead_list header on the wire is <<rlen, offset>>
HeaderSize == 2

\* the values of a payload byte; 0 is a byte of a buffer not written yet
Bytes == {1, 2}

\* the caller's chunk list
ChunkList == <<[offset |-> 0, length |-> 2], [offset |-> 2, length |-> 1]>>

Blank(n) == [i \in 1..n |-> 0]

\* the reader fields after construction and SetChunkList, for a response
\* body of dlen bytes; chunks are counted from 1, so that an index of 0 is
\* no chunk; calls is history
NewReader(kind, dlen) ==
  [kind |-> kind, dlen |-> dlen, status |-> "none", calls |-> 0,
   bytesRead |-> 0,
   chunks |-> [i \in 1..Len(ChunkList) |-> Blank(ChunkList[i].length)],
   pChunkStatus |-> [i \in 1..Len(ChunkList) |->
                      [sizeError |-> FALSE, done |-> FALSE]],
   body |-> << >>,
   pAsyncOffset |-> 0, pAsyncReadSize |-> 0,
   pAsyncReadBuffer |-> <<"none", 0>>,
   pReadRawStarted |-> FALSE, pReadRawCurrentOffset |-> 0,
   pReadVRawMsgOffset |-> 0, pReadVRawChunkHeaderDone |-> FALSE,
   pReadVRawChunkHeaderStarted |-> FALSE, pReadVRawSizeError |-> FALSE,
   pReadVRawChunkIndex |-> 0, pReadVRawChunkHeader |-> Blank(HeaderSize),
   pReadVRawMsgDiscard |-> FALSE, pOtherRawStarted |-> FALSE]

NoReader == NewReader("none", 0)

NoSocket == [stream |-> << >>, pos |-> 0, avail |-> 0]

Put_AtStart(buf, off, bytes) ==
  [i \in 1..Len(buf) |-> IF i <= Len(bytes) THEN bytes[i] ELSE buf[i]]

\* bytes copied into a buffer from position off on
Put(buf, off, bytes) ==
  [i \in 1..Len(buf) |->
     IF i > off /\ i <= off + Len(bytes) THEN bytes[i - off] ELSE buf[i]]

\* ReadAsync: read what the socket has, up to pAsyncReadSize, into
\* pAsyncReadBuffer at pAsyncOffset
ReadAsync(w) ==
  LET r == w.reader
      n == Min(w.socket.avail, r.pAsyncReadSize - r.pAsyncOffset)
      bytes == SubSeq(w.socket.stream, w.socket.pos + 1, w.socket.pos + n)
      to == r.pAsyncReadBuffer
  IN  [reader |-> [r EXCEPT
         !.chunks = IF to[1] = "chunk"
                      THEN [@ EXCEPT ![to[2]] = Put(@, r.pAsyncOffset, bytes)]
                      ELSE @,
         !.body = IF to[1] = "body" THEN Put(@, r.pAsyncOffset, bytes) ELSE @,
         !.pReadVRawChunkHeader =
            IF to[1] = "header" THEN Put(@, r.pAsyncOffset, bytes) ELSE @,
         !.pAsyncOffset = @ + n,
         !.bytesRead = @ + n],
       socket |-> [w.socket EXCEPT !.pos = @ + n, !.avail = @ - n]]

\* the read that ReadAsync was set up for is complete, or the socket
\* would block
AsyncDone(w) == w.reader.pAsyncOffset = w.reader.pAsyncReadSize

Done(w) == [w EXCEPT !.reader = [w.reader EXCEPT !.status = "Done"]]

Retry(w) == [w EXCEPT !.reader = [w.reader EXCEPT !.status = "Retry"]]

\* ReadRawRead: the body goes to the caller's first chunk; the chunk is
\* marked done on completion
ReadRawRead(w) ==
  LET s == IF w.reader.pReadRawStarted THEN w
           ELSE [w EXCEPT !.reader = [w.reader EXCEPT
                   !.pReadRawStarted = TRUE,
                   !.pAsyncOffset = 0,
                   !.pAsyncReadSize = w.reader.dlen,
                   !.pAsyncReadBuffer = <<"chunk", 1>>]]
      a == ReadAsync(s)
      b == [a EXCEPT !.reader = [a.reader EXCEPT
              !.pReadRawCurrentOffset = a.reader.pAsyncOffset]]
  IN  IF AsyncDone(b)
        THEN Done([b EXCEPT !.reader = [b.reader EXCEPT
                     !.pChunkStatus = [@ EXCEPT ![1] =
                                         [@ EXCEPT !.done = TRUE]]]])
        ELSE Retry(b)

\* ReadRawOther: one internal buffer of dlen bytes
ReadRawOther(w) ==
  LET s == IF w.reader.pOtherRawStarted THEN w
           ELSE [w EXCEPT !.reader = [w.reader EXCEPT
                   !.pOtherRawStarted = TRUE,
                   !.body = Blank(w.reader.dlen),
                   !.pAsyncOffset = 0,
                   !.pAsyncReadSize = w.reader.dlen,
                   !.pAsyncReadBuffer = <<"body", 0>>]]
      a == ReadAsync(s)
  IN  IF AsyncDone(a) THEN Done(a) ELSE Retry(a)

HeaderRead_Deliver(w) ==
  LET r == w.reader
      rlen == r.pReadVRawChunkHeader[1]
      offset == r.pReadVRawChunkHeader[2]
      at == {i \in 1..Len(ChunkList) : ChunkList[i].offset = offset}
      index == IF at = {} THEN 0 ELSE CHOOSE i \in at : TRUE
  IN  [w EXCEPT !.reader = [r EXCEPT
         !.pReadVRawChunkHeaderDone = TRUE,
         !.pReadVRawChunkIndex = index,
         !.pAsyncOffset = 0,
         !.pAsyncReadSize = rlen,
         !.pAsyncReadBuffer = IF index # 0 THEN <<"chunk", index>>
                              ELSE <<"discard", 0>>]]

\* ReadRawReadV, a chunk header is complete: the chunk is looked up in the
\* caller's list by offset; the payload is read into it when the length is
\* the chunk's, and discarded otherwise
HeaderRead(w) ==
  LET r == w.reader
      rlen == r.pReadVRawChunkHeader[1]
      offset == r.pReadVRawChunkHeader[2]
      at == {i \in 1..Len(ChunkList) : ChunkList[i].offset = offset}
      index == IF at = {} THEN 0 ELSE CHOOSE i \in at : TRUE
      fits == index # 0 /\ ChunkList[index].length = rlen
  IN  [w EXCEPT !.reader = [r EXCEPT
         !.pReadVRawChunkHeaderDone = TRUE,
         !.pReadVRawChunkIndex = index,
         !.pReadVRawSizeError = (index # 0 /\ ~fits),
         !.pReadVRawMsgDiscard = (index = 0),
         !.pAsyncOffset = 0,
         !.pAsyncReadSize = rlen,
         !.pAsyncReadBuffer = IF fits THEN <<"chunk", index>>
                              ELSE <<"discard", 0>>]]

\* ReadRawReadV, the payload of a chunk is complete
ChunkRead(w) ==
  LET r == w.reader
      index == r.pReadVRawChunkIndex
  IN  [w EXCEPT !.reader = [r EXCEPT
         !.pChunkStatus =
            IF index = 0 THEN @
            ELSE [@ EXCEPT ![index] =
                    IF r.pReadVRawSizeError THEN [@ EXCEPT !.sizeError = TRUE]
                    ELSE [@ EXCEPT !.done = TRUE]],
         !.pReadVRawMsgOffset = @ + HeaderSize + r.pAsyncReadSize,
         !.pReadVRawChunkHeaderStarted = FALSE,
         !.pReadVRawChunkHeaderDone = FALSE,
         !.pReadVRawSizeError = FALSE,
         !.pReadVRawMsgDiscard = FALSE]]

RECURSIVE ReadRawReadV(_)
\* ReadRawReadV: header, payload, header, ... until the message is read
\* or the socket would block
ReadRawReadV(w) ==
  LET r == w.reader
  IN  IF r.pReadVRawMsgOffset = r.dlen THEN Done(w)
      ELSE IF ~r.pReadVRawChunkHeaderStarted
        THEN ReadRawReadV([w EXCEPT !.reader = [r EXCEPT
                             !.pReadVRawChunkHeaderStarted = TRUE,
                             !.pAsyncOffset = 0,
                             !.pAsyncReadSize = HeaderSize,
                             !.pAsyncReadBuffer = <<"header", 0>>]])
      ELSE LET a == ReadAsync(w)
           IN  IF ~AsyncDone(a) THEN Retry(a)
               ELSE IF ~r.pReadVRawChunkHeaderDone
                 THEN ReadRawReadV(HeaderRead(a))
                 ELSE ReadRawReadV(ChunkRead(a))

\* the raw reader of the request's kind
ReadMessageBody(w) ==
  CASE w.reader.kind = "read"  -> ReadRawRead(w)
    [] w.reader.kind = "readv" -> ReadRawReadV(w)
    [] OTHER                   -> ReadRawOther(w)

\* the socket is readable with n bytes and the reader is called
SocketReadable(n) ==
  /\ reader.kind # "none" /\ reader.status # "Done"
  /\ n <= Len(socket.stream) - socket.pos
  /\ n = 0 => reader.status = "none"
  /\ LET w == ReadMessageBody(
                [reader |-> [reader EXCEPT !.calls = @ + 1],
                 socket |-> [socket EXCEPT !.avail = n]])
     IN  reader' = w.reader /\ socket' = w.socket
  /\ UNCHANGED <<now, sendParams, pc, h, cell, tasks, sidLog, cb, hist,
               cgi, msg, xattr>>

\* the chunks a server can put into a kXR_readv response: header, payload
ServerChunks ==
  UNION { { <<rlen, offset>> \o payload : payload \in [1..rlen -> Bytes] } :
          rlen \in {1, 2}, offset \in {0, 2, 3} }

RECURSIVE ReadVStreams(_)
ReadVStreams(n) ==
  IF n = 0 THEN { << >> }
  ELSE LET shorter == ReadVStreams(n - 1)
       IN  shorter \cup { s \o c : s \in shorter, c \in ServerChunks }

\* the response bodies of each kind of request
RawStreams(kind) ==
  CASE kind = "read"  ->
         UNION { [1..n -> Bytes] : n \in 0..ChunkList[1].length }
    [] kind = "readv" -> ReadVStreams(MaxServerChunks)
    [] OTHER          -> UNION { [1..n -> Bytes] : n \in 0..MaxBody }

----------------------------------------------------------------------------
\* MessageUtils::MergeCGI and MessageUtils::RewriteCGIAndPath

\* the keys of a URL::ParamsMap, in the order std::map iterates over them
AllKeys == <<"j", "k", "l">>

Keys == {AllKeys[i] : i \in 1..NumKeys}

\* the values of a parameter, strings as sequences of characters
Values == {<< >>, <<"v">>, <<"w">>}

\* URL::ParamsMap: a function from the keys present to their values
ParamsMaps == UNION { [present -> Values] : present \in SUBSET Keys }

\* cgi1[key] = value, the key inserted if absent
Assign(cgi1, key, value) ==
  [k \in DOMAIN cgi1 \cup {key} |-> IF k = key THEN value ELSE cgi1[k]]

MergeKey_Append(cgi1, key, value, replace) ==
  IF key \notin DOMAIN cgi1 \/ cgi1[key] = << >>
    THEN Assign(cgi1, key, value)
    ELSE [cgi1 EXCEPT ![key] = @ \o <<",">> \o value]

MergeKey_Replace(cgi1, key, value, replace) == Assign(cgi1, key, value)

\* MergeCGI, the body of the loop over cgi2
MergeKey(cgi1, key, value, replace) ==
  IF replace \/ key \notin DOMAIN cgi1
    THEN Assign(cgi1, key, value)
    ELSE IF cgi1[key] = << >>
      THEN [cgi1 EXCEPT ![key] = value]
      ELSE [cgi1 EXCEPT ![key] = @ \o <<",">> \o value]

RECURSIVE MergeFrom(_, _, _, _)
\* MergeCGI, the loop from the i-th key on, in the order of the map
MergeFrom(i, cgi1, cgi2, replace) ==
  IF i > Len(AllKeys) THEN cgi1
  ELSE IF AllKeys[i] \in DOMAIN cgi2
    THEN MergeFrom(i + 1,
                   MergeKey(cgi1, AllKeys[i], cgi2[AllKeys[i]], replace),
                   cgi2, replace)
    ELSE MergeFrom(i + 1, cgi1, cgi2, replace)

\* MergeCGI: merge cgi2 into cgi1
MergeCGI(cgi1, cgi2, replace) == MergeFrom(1, cgi1, cgi2, replace)

NoCgi == [before |-> << >>, cgi1 |-> << >>, cgi2 |-> << >>,
          replace |-> FALSE, calls |-> 0]

\* MergeCGI( cgi1, cgi2, replace ) is called; before is history, the map
\* that the first call was given
MergeCGIStep ==
  /\ cgi.calls < MaxMerges
  /\ cgi' = [cgi EXCEPT !.cgi1 = MergeCGI(cgi.cgi1, cgi.cgi2, cgi.replace),
                        !.calls = @ + 1]
  /\ UNCHANGED <<now, sendParams, pc, h, cell, tasks, sidLog, cb, hist,
                 reader, socket, msg, xattr>>

\* size_t and uint32_t arithmetic wraps; both are narrowed to 30 bits, the
\* widest power of two whose sums fit the integers of the model checker
SizeT == 2^30

\* size of the request header in front of the body
HeaderLen == 24

PathRequests ==
  {"kXR_chmod", "kXR_mkdir", "kXR_mv", "kXR_open", "kXR_rm", "kXR_rmdir",
   "kXR_stat", "kXR_truncate"}

\* request types that the switch does not name
OtherRequests == {"kXR_dirlist", "kXR_locate", "kXR_read"}

HasPath_Any(requestid) == TRUE

\* the cases of the switch on req->header.requestid
HasPath(requestid) == requestid \in PathRequests

\* position of the first c in s, 0 if there is none
IndexOf(s, c) ==
  IF \E i \in 1..Len(s) : s[i] = c
    THEN CHOOSE i \in 1..Len(s) : s[i] = c /\ \A j \in 1..(i - 1) : s[j] # c
    ELSE 0

RECURSIVE Split(_, _)
\* the pieces of s between the separators c
Split(s, c) ==
  IF IndexOf(s, c) = 0 THEN <<s>>
  ELSE <<SubSeq(s, 1, IndexOf(s, c) - 1)>>
         \o Split(SubSeq(s, IndexOf(s, c) + 1, Len(s)), c)

RECURSIVE ParamsOf(_)
\* URL::SetParams of a string: key=value items; the keys are one character
ParamsOf(items) ==
  IF items = << >> THEN << >>
  ELSE LET item == Head(items)
           rest == ParamsOf(Tail(items))
           eq == IndexOf(item, "=")
       IN  IF item = << >> THEN rest
           ELSE IF item[1] \in DOMAIN rest THEN rest
           ELSE IF eq = 0 THEN Assign(rest, item[1], << >>)
           ELSE Assign(rest, item[1], SubSeq(item, eq + 1, Len(item)))

\* URL( "fake://fake:111/" + path ): what follows the host is the path up
\* to the first '?', and the parameters after it
URL(pathWithNull) ==
  LET q == IndexOf(pathWithNull, "?")
  IN  IF q = 0 THEN [path |-> pathWithNull, params |-> << >>]
      ELSE [path |-> SubSeq(pathWithNull, 1, q - 1),
            params |-> ParamsOf(Split(SubSeq(pathWithNull, q + 1,
                                             Len(pathWithNull)), "&"))]

RECURSIVE ParamsAsString(_, _, _)
\* URL::GetParamsAsString from the i-th key on: key=value joined by '&'
ParamsAsString(i, params, first) ==
  IF i > Len(AllKeys) THEN << >>
  ELSE IF AllKeys[i] \in DOMAIN params
    THEN (IF first THEN <<"?">> ELSE <<"&">>)
           \o <<AllKeys[i], "=">> \o params[AllKeys[i]]
           \o ParamsAsString(i + 1, params, FALSE)
    ELSE ParamsAsString(i + 1, params, first)

\* URL::GetPathWithParams
GetPathWithParams(url) == url.path \o ParamsAsString(1, url.params, TRUE)

\* the bytes of the body in front of the path: for kXR_mv the source path
\* and the space after it; without a space the loop runs to dlen and the
\* increment goes one past it
Skipped(m) ==
  IF m.requestid = "kXR_mv"
    THEN IF IndexOf(SubSeq(m.body, 1, m.dlen), " ") = 0 THEN m.dlen + 1
         ELSE IndexOf(SubSeq(m.body, 1, m.dlen), " ")
    ELSE 0

\* size_t length: dlen, less what the kXR_mv loop and its --length took
PathLength(m) == (m.dlen - Skipped(m)) % SizeT

\* memcpy( pathWithNull, path, length ) stays inside the buffer
Defined(m) == Skipped(m) + PathLength(m) <= Len(m.body)

NewDlen_NoLength(dlen, length, size) == (dlen + size) % SizeT

\* uint32_t newDlen = req->header.dlen - length + newPathWitParams.size()
NewDlen(dlen, length, size) == (dlen - length + size) % SizeT

\* newPathWitParams for the path that was read out of the body
NewPathWitParams(pathWithNull, newCgi, replace, newPath) ==
  LET currentPath == URL(pathWithNull)
      merged == [currentPath EXCEPT
                   !.params = MergeCGI(currentPath.params, newCgi, replace)]
      moved == IF newPath # << >> THEN [merged EXCEPT !.path = newPath]
               ELSE merged
  IN  GetPathWithParams(moved)

\* RewriteCGIAndPath where every access is inside the buffer; length and
\* written are history: the locals length and newPathWitParams
RewriteCGIAndPath(m, newCgi, replace, newPath) ==
  IF ~HasPath(m.requestid) THEN [m EXCEPT !.rewrites = @ + 1]
  ELSE
    LET length == PathLength(m)
        written == NewPathWitParams(
                     SubSeq(m.body, Skipped(m) + 1, Skipped(m) + length),
                     newCgi, replace, newPath)
        newDlen == NewDlen(m.dlen, length, Len(written))
    IN  [m EXCEPT !.size = HeaderLen + newDlen,
                  !.body = SubSeq(m.body, 1, Skipped(m)) \o written,
                  !.dlen = newDlen,
                  !.length = length,
                  !.written = written,
                  !.rewrites = @ + 1]

NoMessage == [requestid |-> "none", dlen |-> 0, body |-> << >>, size |-> 0,
              rewrites |-> 0, length |-> 0, written |-> << >>,
              crashed |-> FALSE]

\* a request as the client builds it: the body after the header, dlen its
\* length
Message(requestid, body) ==
  [NoMessage EXCEPT !.requestid = requestid, !.dlen = Len(body),
                    !.body = body, !.size = HeaderLen + Len(body)]

\* the CGI maps and paths a redirect brings
NewCgis ==
  { << >> } \cup { [k \in {"k"} |-> v] : v \in Values }
            \cup { [k \in {"j"} |-> <<"v">>] }

NewPaths == { << >>, <<"/", "c">> }

\* a path, with or without CGI
PathBodies == { <<"/", "a">>, <<"/", "a", "?", "k", "=", "v">> }

\* the bodies of a request: kXR_mv carries source, space, destination
Bodies(requestid) ==
  IF requestid = "kXR_mv" THEN { <<"/", "s", " ">> \o p : p \in PathBodies }
  ELSE PathBodies

\* RewriteCGIAndPath is called on the request
RewriteStep(newCgi, replace, newPath) ==
  /\ msg.requestid # "none" /\ ~msg.crashed
  /\ msg.rewrites < MaxRewrites
  /\ Defined(msg)
  /\ msg' = RewriteCGIAndPath(msg, newCgi, replace, newPath)
  /\ UNCHANGED <<now, sendParams, pc, h, cell, tasks, sidLog, cb, hist,
                 reader, socket, cgi, xattr>>

\* RewriteCGIAndPath on a kXR_mv body without a space: length wraps to the
\* largest size_t and memcpy reads far past the buffer. The call crashes,
\* or it goes on with whatever was read as the path and leaves the byte
\* behind the old body as it finds it.
RewriteUndefined(newCgi, replace, newPath) ==
  /\ msg.requestid # "none" /\ ~msg.crashed
  /\ msg.rewrites < MaxRewrites
  /\ ~Defined(msg)
  /\ \/ msg' = [msg EXCEPT !.crashed = TRUE, !.length = PathLength(msg),
                           !.rewrites = @ + 1]
     \/ \E read \in PathBodies \cup { << >> }, junk \in {"/", " "} :
          LET written == NewPathWitParams(read, newCgi, replace, newPath)
              newDlen == NewDlen(msg.dlen, PathLength(msg), Len(written))
          IN  msg' = [msg EXCEPT !.size = HeaderLen + newDlen,
                                 !.body = @ \o <<junk>> \o written,
                                 !.dlen = newDlen,
                                 !.length = PathLength(msg),
                                 !.written = written,
                                 !.rewrites = @ + 1]
  /\ UNCHANGED <<now, sendParams, pc, h, cell, tasks, sidLog, cb, hist,
                 reader, socket, cgi, xattr>>

----------------------------------------------------------------------------
\* MessageUtils::CreateXAttrVec, both overloads

\* xfaLimits: the most attributes of one request and the most bytes of its
\* name vector and of its value vector. XProtocol.hh sets them to 16, 248
\* and 65536; CreateXAttrVec only compares with them, and the model takes
\* small ones so that short lists reach each of them
kXR_faMaxVars == 2
kXR_faMaxNlen == 8
kXR_faMaxVlen == 9

\* 2 bytes for rc + 1 byte for null character at the end
name_overhead == 3
\* 4 bytes for value length
value_overhead == 4

\* the longest attribute list, name and value of the model
MaxAttrs == 3
MaxName == 2
MaxValue == 1

\* std::string without a null character in it, as a sequence of bytes
Strings(c, max) == UNION {[1..n -> {c}] : n \in 0..max}

\* xattr_t: std::tuple<std::string, std::string>
XAttrs == [xattr_name : Strings(110, MaxName),
           xattr_value : Strings(118, MaxValue)]

AttrLists == UNION {[1..n -> XAttrs] : n \in 0..MaxAttrs}

NameLists == UNION {[1..n -> Strings(110, MaxName)] : n \in 0..MaxAttrs}

\* the output vector as the caller hands it in: new, or used before
Vectors == {<< >>, <<7>>, [i \in 1..20 |-> 7]}

\* std::vector<char>::resize( n, 0 )
Resize(avec, n) == [i \in 1..n |-> IF i <= Len(avec) THEN avec[i] ELSE 0]

\* memcpy and memset into the vector's data at ptr, inside its size
Write(avec, ptr, bytes) ==
  [i \in 1..Len(avec) |->
     IF i > ptr /\ i <= ptr + Len(bytes) THEN bytes[i - ptr] ELSE avec[i]]

\* ClientFattrRequest::NVecInsert: rc of two zero bytes, the name, its null
\* character; returns the pointer behind them
NVecInsert(name, w) ==
  LET entry == <<0, 0>> \o name \o <<0>>
  IN  [w EXCEPT !.avec = Write(@, w.nvec, entry), !.nvec = @ + Len(entry)]

\* ClientFattrRequest::VVecInsert: the length in four bytes, network order,
\* and the value; returns the pointer behind them
VVecInsert(value, w) ==
  LET entry == <<0, 0, 0, Len(value)>> \o value
  IN  [w EXCEPT !.avec = Write(@, w.vvec, entry), !.vvec = @ + Len(entry)]

\* the loops that add up nlen and vlen
RECURSIVE Nlen_NoOverhead(_)
Nlen_NoOverhead(names) ==
  IF names = << >> THEN 0
  ELSE Len(Head(names)) + Nlen_NoOverhead(Tail(names))

RECURSIVE Nlen(_)
Nlen(names) ==
  IF names = << >> THEN 0
  ELSE Len(Head(names)) + name_overhead + Nlen(Tail(names))

RECURSIVE Vlen(_)
Vlen(values) ==
  IF values = << >> THEN 0
  ELSE Len(Head(values)) + value_overhead + Vlen(Tail(values))

RECURSIVE InsertAttrs(_, _)
InsertAttrs(attrs, w) ==
  IF attrs = << >> THEN w
  ELSE InsertAttrs(Tail(attrs),
                   VVecInsert(Head(attrs).xattr_value,
                              NVecInsert(Head(attrs).xattr_name, w)))

RECURSIVE InsertNames(_, _)
InsertNames(attrs, w) ==
  IF attrs = << >> THEN w
  ELSE InsertNames(Tail(attrs), NVecInsert(Head(attrs), w))

\* CreateXAttrVec( const std::vector<xattr_t>&, std::vector<char>& ):
\* the Status returned and the vector left behind
CreateXAttrVec(attrs, avec) ==
  IF attrs = << >> THEN [status |-> "OK", avec |-> avec]
  ELSE IF Len(attrs) > kXR_faMaxVars
  THEN [status |-> "errInvalidArgs", avec |-> avec]
  ELSE
    LET nlen == Nlen([i \in 1..Len(attrs) |-> attrs[i].xattr_name])
        vlen == Vlen([i \in 1..Len(attrs) |-> attrs[i].xattr_value])
    IN  IF nlen > kXR_faMaxNlen
        THEN [status |-> "errInvalidArgs", avec |-> avec]
        ELSE IF vlen > kXR_faMaxVlen
        THEN [status |-> "errInvalidArgs", avec |-> avec]
        ELSE LET w == [avec |-> Resize(avec, nlen + vlen),
                       nvec |-> 0, vvec |-> nlen]
             IN  [status |-> "OK", avec |-> InsertAttrs(attrs, w).avec]

\* CreateXAttrVec( const std::vector<std::string>&, std::vector<char>& )
CreateXAttrNameVec(attrs, nvec) ==
  IF attrs = << >> THEN [status |-> "OK", avec |-> nvec]
  ELSE IF Len(attrs) > kXR_faMaxVars
  THEN [status |-> "errInvalidArgs", avec |-> nvec]
  ELSE
    LET nlen == Nlen(attrs)
    IN  IF nlen > kXR_faMaxNlen
        THEN [status |-> "errInvalidArgs", avec |-> nvec]
        ELSE LET w == [avec |-> Resize(nvec, nlen), nvec |-> 0, vvec |-> 0]
             IN  [status |-> "OK", avec |-> InsertNames(attrs, w).avec]

NoXAttr == [overload |-> "none", attrs |-> << >>, before |-> << >>,
            avec |-> << >>, status |-> "none"]

\* a caller builds the vector of a set request from names and values
CreateXAttrVecStep ==
  /\ xattr.overload = "attrs" /\ xattr.status = "none"
  /\ LET r == CreateXAttrVec(xattr.attrs, xattr.avec)
     IN  xattr' = [xattr EXCEPT !.status = r.status, !.avec = r.avec]
  /\ UNCHANGED <<now, sendParams, pc, h, cell, tasks, sidLog, cb, hist,
                 reader, socket, cgi, msg>>

\* a caller builds the vector of a get or del request from names alone
CreateXAttrNameVecStep ==
  /\ xattr.overload = "names" /\ xattr.status = "none"
  /\ LET r == CreateXAttrNameVec(xattr.attrs, xattr.avec)
     IN  xattr' = [xattr EXCEPT !.status = r.status, !.avec = r.avec]
  /\ UNCHANGED <<now, sendParams, pc, h, cell, tasks, sidLog, cb, hist,
                 reader, socket, cgi, msg>>

----------------------------------------------------------------------------
\* nothing has been sent yet
Unsent ==
  /\ now = 0
  /\ pc = "params"
  /\ h = NoHandler
  /\ cell = NoCell
  /\ tasks = {}
  /\ sidLog = << >>
  /\ cb = [count |-> 0, status |-> "none", hosts |-> << >>,
           response |-> << >>]
  /\ hist = [followed |-> 0, retries |-> 0, redirects |-> 0,
             waitDoneOnDead |-> FALSE, freedBy |-> "nobody",
             backToTried |-> FALSE,
             lateAttempt |-> "none"]

\* no raw body is being read, no request is being rewritten
NoRaw == reader = NoReader /\ socket = NoSocket

NoRewrite == cgi = NoCgi /\ msg = NoMessage

Started == Unsent /\ NoRaw /\ NoRewrite /\ xattr = NoXAttr

Init ==
  /\ sendParams \in [timeout : {0, MaxTimeout}, expires : {0},
                     redirectLimit : {0, MaxRedirectLimit},
                     loadBalancer : {NoHost, Origin}, sessionId : {FALSE}]
  /\ Started

Handler ==
  \/ ProcessSendParamsStep
  \/ \E queryOk, allocOk, sendOk \in BOOLEAN : SendMessage(queryOk, allocOk, sendOk)
  \/ \E f \in PlainFrames : Process(f)
  \/ \E f \in PlainFrames : ProcessAttn(f)
  \/ \E e \in {"Timeout", "FatalError", "Broken"}, r \in BOOLEAN : OnStreamEvent(e, r)
  \/ \E ok, r \in BOOLEAN : OnStatusReady(ok, r)
  \/ \E t \in tasks : WaitTaskRun(t)
  \/ \E t \in tasks : WaitTaskFree(t)
  \/ Destroy

Next == Handler \/ Tick

Spec == Init /\ [][Next]_vars

\* The PostMaster's timers are punctual: the Timeout event, the timeout of
\* the out-queue and the wait task are delivered at their time, and the
\* handler's reaction takes no time, so the clock does not pass the
\* expiration while the handler has not delivered its result
TickPunctual ==
  /\ (h.alive /\ h.state # "Terminal") => now < h.pExpiration
  /\ \A t \in tasks : t.pc = "pending" => t.time > now
  /\ Tick

NextPunctual == Handler \/ TickPunctual

\* a request sent without a load balancer in its MessageSendParams: the
\* origin becomes the load balancer with the first redirect
InitPunctual == Init /\ sendParams.loadBalancer = NoHost

PunctualSpec ==
  /\ InitPunctual /\ [][NextPunctual]_vars
  /\ WF_vars(TickPunctual)
  /\ WF_vars(OnStreamEvent("Timeout", FALSE))
  /\ WF_vars(OnStatusReady(TRUE, FALSE))
  /\ WF_vars(\E t \in tasks : WaitTaskRun(t))

\* A request handed to a virtual redirector with RedirectMessage
InitRedirected ==
  /\ sendParams \in [timeout : {0}, expires : {0},
                     redirectLimit : {0, MaxRedirectLimit},
                     loadBalancer : {NoHost}, sessionId : {FALSE}]
  /\ Started

Redirected ==
  \/ ProcessSendParamsStep
  \/ \E registerOk, postMasterOk, redirectOk \in BOOLEAN :
       RedirectMessage(registerOk, postMasterOk, redirectOk)
  \/ \E f \in PlainFrames : Process(f)
  \/ \E f \in PlainFrames : ProcessAttn(f)
  \/ \E e \in {"Timeout", "FatalError", "Broken"}, r \in BOOLEAN : OnStreamEvent(e, r)
  \/ \E ok, r \in BOOLEAN : OnStatusReady(ok, r)
  \/ \E t \in tasks : WaitTaskRun(t)
  \/ \E t \in tasks : WaitTaskFree(t)
  \/ Destroy
  \/ Tick

RedirectedSpec == InitRedirected /\ [][Redirected]_vars

\* A server that answers every request with a redirect, well before the
\* deadline
Redirecting ==
  \/ ProcessSendParamsStep
  \/ \E queryOk, allocOk, sendOk \in BOOLEAN : SendMessage(queryOk, allocOk, sendOk)
  \/ \E url \in Hosts : Process([kind |-> "redirect", arg |-> url])
  \/ OnStatusReady(TRUE, FALSE)
  \/ Destroy

RedirectSpec ==
  /\ Init /\ [][Redirecting]_vars
  /\ WF_vars(\E url \in Hosts : Process([kind |-> "redirect", arg |-> url]))
  /\ WF_vars(OnStatusReady(TRUE, FALSE))

\* A server that answers with a redirect to the URL the request was sent
\* to, or with ok
RedirectingToSame ==
  \/ ProcessSendParamsStep
  \/ \E queryOk, allocOk, sendOk \in BOOLEAN : SendMessage(queryOk, allocOk, sendOk)
  \/ Process([kind |-> "redirect", arg |-> h.pUrl])
  \/ Process([kind |-> "ok", arg |-> 0])
  \/ OnStatusReady(TRUE, FALSE)
  \/ Destroy

SameUrlSpec ==
  /\ Init /\ [][RedirectingToSame]_vars
  /\ WF_vars(Process([kind |-> "redirect", arg |-> h.pUrl])
               \/ Process([kind |-> "ok", arg |-> 0]))
  /\ WF_vars(OnStatusReady(TRUE, FALSE))

\* A server that answers in segments and ends with ok or with an error
Segmenting ==
  \/ ProcessSendParamsStep
  \/ \E queryOk, allocOk, sendOk \in BOOLEAN : SendMessage(queryOk, allocOk, sendOk)
  \/ \E payload \in 1..NumPayloads : ProcessSegment(payload)
  \/ Process([kind |-> "ok", arg |-> Final])
  \/ Process([kind |-> "error", arg |-> 0])
  \/ OnStatusReady(TRUE, FALSE)
  \/ Destroy

SegmentSpec == Init /\ [][Segmenting]_vars

\* The body of a response is read raw, in any number of short reads
InitRaw ==
  /\ sendParams = [timeout |-> 0, expires |-> 0, redirectLimit |-> 0,
                   loadBalancer |-> NoHost, sessionId |-> FALSE]
  /\ Unsent /\ NoRewrite /\ xattr = NoXAttr
  /\ \E kind \in {"read", "readv", "other"} :
       \E stream \in RawStreams(kind) :
         /\ reader = NewReader(kind, Len(stream))
         /\ socket = [stream |-> stream, pos |-> 0, avail |-> 0]

Reading == \E n \in 0..Len(socket.stream) : SocketReadable(n)

RawSpec == InitRaw /\ [][Reading]_vars

\* ProcessSendParams on any parameters of the caller, at any time, twice
InitParams ==
  /\ sendParams \in [timeout : 0..MaxTimeout, expires : 0..MaxTime,
                     redirectLimit : 0..MaxRedirectLimit,
                     loadBalancer : {NoHost}, sessionId : {FALSE}]
  /\ Started

Processing == ProcessSendParamsStep \/ ProcessSendParamsAgain \/ Clock

ParamsSpec == InitParams /\ [][Processing]_vars

\* MergeCGI applied to any two maps
InitCgi ==
  /\ sendParams = [timeout |-> 0, expires |-> 0, redirectLimit |-> 0,
                   loadBalancer |-> NoHost, sessionId |-> FALSE]
  /\ Unsent /\ NoRaw /\ msg = NoMessage /\ xattr = NoXAttr
  /\ \E cgi1 \in ParamsMaps, cgi2 \in ParamsMaps, replace \in BOOLEAN :
       cgi = [before |-> cgi1, cgi1 |-> cgi1, cgi2 |-> cgi2,
              replace |-> replace, calls |-> 0]

CgiSpec == InitCgi /\ [][MergeCGIStep]_vars

\* RewriteCGIAndPath on the requests the client builds
Rewriting ==
  \E newCgi \in NewCgis, replace \in BOOLEAN, newPath \in NewPaths :
    RewriteStep(newCgi, replace, newPath)

InitRewrite ==
  /\ sendParams = [timeout |-> 0, expires |-> 0, redirectLimit |-> 0,
                   loadBalancer |-> NoHost, sessionId |-> FALSE]
  /\ Unsent /\ NoRaw /\ cgi = NoCgi /\ xattr = NoXAttr
  /\ \E requestid \in PathRequests \cup OtherRequests :
       \E body \in Bodies(requestid) : msg = Message(requestid, body)

RewriteSpec == InitRewrite /\ [][Rewriting]_vars

\* RewriteCGIAndPath on any body, a kXR_mv without a space included
RewritingAny ==
  \E newCgi \in NewCgis, replace \in BOOLEAN, newPath \in NewPaths :
    \/ RewriteStep(newCgi, replace, newPath)
    \/ RewriteUndefined(newCgi, replace, newPath)

InitRewriteAny ==
  /\ sendParams = [timeout |-> 0, expires |-> 0, redirectLimit |-> 0,
                   loadBalancer |-> NoHost, sessionId |-> FALSE]
  /\ Unsent /\ NoRaw /\ cgi = NoCgi /\ xattr = NoXAttr
  /\ \E requestid \in PathRequests \cup OtherRequests :
       \E body \in Bodies(requestid) \cup PathBodies :
         msg = Message(requestid, body)

RewriteAnySpec == InitRewriteAny /\ [][RewritingAny]_vars

\* CreateXAttrVec on any attribute list and any output vector
CreatingXAttrVec == CreateXAttrVecStep \/ CreateXAttrNameVecStep

InitXAttr ==
  /\ sendParams = [timeout |-> 0, expires |-> 0, redirectLimit |-> 0,
                   loadBalancer |-> NoHost, sessionId |-> FALSE]
  /\ Unsent /\ NoRaw /\ NoRewrite
  /\ \E overload \in {"attrs", "names"}, avec \in Vectors :
       \E attrs \in IF overload = "attrs" THEN AttrLists ELSE NameLists :
         xattr = [overload |-> overload, attrs |-> attrs, before |-> avec,
                  avec |-> avec, status |-> "none"]

XAttrSpec == InitXAttr /\ [][CreatingXAttrVec]_vars

\* A request with the parameters of the environment, with or without a
\* session id (msg->GetSessionId())
InitSession ==
  /\ sendParams \in [timeout : {0}, expires : {0}, redirectLimit : {0},
                     loadBalancer : {NoHost}, sessionId : BOOLEAN]
  /\ Started

SessionSpec == InitSession /\ [][Next]_vars

----------------------------------------------------------------------------
\* Claims

\* C1: the ResponseHandler is invoked at most once, and once the handler has
\* reached its terminal state there is no further callback, no resend and no
\* state transition, whatever frames, stream events, wake-ups and send
\* confirmations follow.
C1_AtMostOneCallback ==
  /\ [](cb.count <= 1)
  /\ [][h.state = "Terminal" =>
          /\ cb' = cb
          /\ sidLog' = sidLog
          /\ h'.state = "Terminal"]_vars

\* a wait task woke up after the result was delivered, and nothing happened
C1_Witness ==
  /\ cb.count = 1 /\ h.state = "Terminal"
  /\ \E t \in tasks : t.pc = "skipped"
  /\ hist.followed >= 1

\* C3: a wait task calls WaitDone only on a live handler; once the
\* destructor has run, a wait task that is still to fire finds the handler
\* pointer of the cell null.
C3_WaitDoneOnlyOnLiveHandler ==
  /\ ~hist.waitDoneOnDead
  /\ (~h.alive /\ (\E t \in tasks : t.pc = "pending")) => ~cell.ref

\* a wait task fired after the destructor had run, found the pointer null
\* and is about to drop its reference
C3_Witness ==
  /\ ~h.alive /\ cb.count = 1
  /\ \E t \in tasks : t.pc = "skipped"

\* the references to the cell that have not been released
Holders == (IF h.alive THEN 1 ELSE 0) + Cardinality(tasks)

\* C4: the cell is deleted once, by the Free() that brings count to zero,
\* not while the handler or a wait task holds a reference, and it is deleted
\* when the last reference is gone; Invalidate() nulls the pointer and
\* changes neither count nor the cell's existence.
C4_CellDeletedOnceAtZero ==
  /\ [](/\ cell.deleted <= 1
        /\ cell.deleted = 1 => Holders = 0 /\ cell.count = 0
        /\ (pc \in {"sent", "failed"} /\ h.state # "Init" /\ Holders = 0)
             => cell.deleted = 1)
  /\ [][cell.ref /\ ~cell'.ref /\ h.alive =>
          cell'.count = cell.count /\ cell'.deleted = cell.deleted]_vars

\* the cell was deleted by a wait task, after the handler
C4_Witness == cell.deleted = 1 /\ hist.freedBy = "task" /\ cb.count = 1

\* C5: count is 1 for the handler while it is not destroyed plus one per
\* wait task that holds a reference; it is 1 at construction and moves by
\* single steps, never around the 16-bit range.
C5_CountIsHolders ==
  /\ [](cell.count = Holders)
  /\ [][/\ cell'.count - cell.count \in {-1, 0, 1}
        /\ (~h.alive /\ h'.alive) => cell'.count = 1]_vars

\* the handler and two wait tasks hold a reference
C5_Witness == cell.count = 3 /\ h.alive

RECURSIVE HeldAfter(_, _)
HeldAfter(log, held) ==
  IF log = << >> THEN held
  ELSE HeldAfter(Tail(log), IF Head(log)[1] = "alloc"
                              THEN held \cup {Head(log)[2]}
                              ELSE held \ {Head(log)[2]})

\* every AllocateSID is at an endpoint where the request holds no SID, and
\* every ReleaseSID at one where it holds one
RECURSIVE Paired(_, _)
Paired(log, held) ==
  \/ log = << >>
  \/ /\ IF Head(log)[1] = "alloc" THEN Head(log)[2] \notin held
                                  ELSE Head(log)[2] \in held
     /\ Paired(Tail(log), HeldAfter(<<Head(log)>>, held))

\* every AllocateSID is made when the request holds no SID at all
RECURSIVE OneAtATime(_, _)
OneAtATime(log, held) ==
  \/ log = << >>
  \/ /\ Head(log)[1] = "alloc" => held = {}
     /\ OneAtATime(Tail(log), HeldAfter(<<Head(log)>>, held))

\* C6: a SID that was allocated is released once: no SID is released twice
\* or without having been allocated, and when SendMessage has failed or the
\* handler has delivered its result no SID is left allocated.
C6_SidReleasedOnce ==
  /\ Paired(sidLog, {})
  /\ (pc = "failed" \/ h.state = "Terminal") => HeldAfter(sidLog, {}) = {}

\* a request that was redirected and has ended: two SIDs, both released
C6_Witness == h.state = "Terminal" /\ Len(sidLog) = 4 /\ hist.followed = 1

\* C7: the request holds at most one SID at any point of the program order,
\* so on a redirect the old SID is released before the new one is
\* allocated; the SID is the one of the current endpoint, and a request that
\* is in flight holds exactly that one.
C7_OneSidAtCurrentEndpoint ==
  /\ OneAtATime(sidLog, {})
  /\ HeldAfter(sidLog, {}) \subseteq {h.pUrl}
  /\ (h.alive /\ h.state = "InFlight") => HeldAfter(sidLog, {}) = {h.pUrl}

\* the request has followed a redirect to another endpoint and is in flight
C7_Witness ==
  /\ h.state = "InFlight" /\ hist.followed >= 1 /\ h.pUrl # Origin
  /\ HeldAfter(sidLog, {}) = {h.pUrl} /\ Len(sidLog) = 3

\* C8: no operation that the handler attempts after the expiration is sent;
\* it ends the request with errOperationExpired.
C8_NoSendAfterExpiration ==
  /\ hist.lateAttempt # "sent"
  /\ hist.lateAttempt = "expired" =>
       h.pStatus = "errOperationExpired" /\ h.state \in {"Completed", "Terminal"}

\* a redirect or a wake-up came after the expiration and ended the request
C8_Witness ==
  /\ hist.lateAttempt = "expired" /\ now > sendParams.expires
  /\ cb.count = 1 /\ cb.status = "errOperationExpired"

C12_HostListAppendOnly ==
  /\ [](h.alive => /\ Len(h.pHosts) >= 1
                   /\ h.pHosts[1] = Origin
                   /\ h.pHosts[Len(h.pHosts)] = h.pUrl)
  /\ [](cb.count = 1 => cb.hosts = h.pHosts)
  /\ [][h.alive =>
          \/ h'.pHosts = h.pHosts /\ h'.pUrl = h.pUrl
          \/ /\ h'.pHosts = Append(h.pHosts, h'.pUrl)
             /\ h'.state = "InFlight"]_vars
  /\ [][hist'.followed = hist.followed + 1 =>
          Len(h'.pHosts) = Len(h.pHosts) + 1]_vars

\* two redirects were followed, to different hosts, and the answer was ok
C12_Witness ==
  /\ cb.count = 1 /\ cb.status = "OK" /\ hist.followed = 2
  /\ Len(cb.hosts) = 3 /\ cb.hosts[2] # cb.hosts[3]

C14_RequestFreedUnlessSession ==
  /\ h.alive => /\ h.pHasSessionId = sendParams.sessionId
                /\ h.requestFreed = 0
  /\ (~h.alive /\ cell.deleted + cell.count > 0) =>
       /\ h.pHasSessionId = sendParams.sessionId
       /\ h.requestFreed = IF sendParams.sessionId THEN 0 ELSE 1
       /\ ~h.pResponse /\ h.pPartialResps = << >>
       /\ h.responseFreed = IF h.pStatus \in {"OK", "errErrorResponse"} THEN 1 ELSE 0

\* a request with a session id was redirected and answered, and its
\* handler is gone: the request is not deleted, the answer is
C14_Witness ==
  /\ ~h.alive /\ cb.count = 1 /\ sendParams.sessionId
  /\ h.requestFreed = 0 /\ h.responseFreed = 1 /\ h.pPartialResps = << >>
  /\ hist.followed = 1

\* the handler waits for a wake-up that comes at the expiration or later
WaitsPastDeadline ==
  /\ h.alive /\ h.state = "Waiting"
  /\ \E t \in tasks : t.pc = "pending" /\ t.time >= sendParams.expires

Due == {t \in tasks : t.pc = "pending" /\ t.time <= now}

\* the handler waits for a wake-up that comes before the expiration
WaitsWithinDeadline ==
  /\ h.alive /\ h.state = "Waiting" /\ cell.ref
  /\ \E t \in tasks : t.pc = "pending" /\ t.time < sendParams.expires

AfterWaitResp == Deliver(ProcessFrame(World, [kind |-> "waitresp", arg |-> 0]))

C18_SameUrlRedirectEnds ==
  /\ (pc = "sent") ~> (cb.count = 1)
  /\ [](hist.followed <= sendParams.redirectLimit)
  /\ [](h.alive => Range(h.pHosts) = {Origin} /\ Len(h.pHosts) = hist.followed + 1)
  /\ [](cb.count = 1 =>
          \/ cb.status = "OK"
          \/ /\ cb.status = "errRedirectLimit"
             /\ hist.followed = sendParams.redirectLimit
             /\ hist.redirects = sendParams.redirectLimit + 1)

\* the budget of two was used up on the same URL
C18_Witness ==
  /\ cb.count = 1 /\ cb.status = "errRedirectLimit"
  /\ cb.hosts = <<Origin, Origin, Origin>> /\ hist.redirects = 3

\* C19: a kXR_oksofar frame is kept behind the frames kept before it,
\* leaves the request in flight and calls nothing; the response handed to
\* the ResponseHandler is the kept frames in that order followed by the
\* final response.
C19_PartialsInArrivalOrder ==
  /\ [][(h.alive /\ h'.alive /\ h'.pPartialResps # h.pPartialResps) =>
          /\ \E payload \in 1..NumPayloads :
               h'.pPartialResps = Append(h.pPartialResps, payload)
          /\ h.state = "InFlight" /\ h'.state = "InFlight"
          /\ cb.count = 0 /\ cb' = cb
          /\ cell' = cell /\ sidLog' = sidLog]_vars
  /\ [][(cb'.count # cb.count /\ cb'.status = "OK") =>
          cb'.response = h.pPartialResps \o <<Final>>]_vars
  /\ [](cb.count = 1 /\ cb.status # "OK" => cb.response = << >>)

\* two segments with different payloads were merged before the final one
C19_Witness ==
  /\ cb.count = 1 /\ cb.response = <<2, 1, Final>>

\* what the caller gets from a raw reader
Assembled(r) == <<r.chunks, r.body, r.pChunkStatus, r.bytesRead>>

\* the reader given the whole body in one call
AllAtOnce ==
  ReadMessageBody(
    [reader |-> NewReader(reader.kind, Len(socket.stream)),
     socket |-> [socket EXCEPT !.pos = 0, !.avail = Len(socket.stream)]]).reader

\* C20: however the body is split into short reads, a raw reader answers
\* Retry while bytes are missing and ends in Done with the buffers, chunk
\* statuses and byte count it has when the whole body comes in one call.
C20_RawReadersResumable ==
  reader.kind # "none" =>
    /\ AllAtOnce.status = "Done"
    /\ reader.status = "Done" =>
         /\ Assembled(reader) = Assembled(AllAtOnce)
         /\ socket.pos = Len(socket.stream)
    /\ reader.status = "Retry" =>
         /\ socket.pos < Len(socket.stream)
         /\ reader.bytesRead = socket.pos
    /\ socket.avail = 0

\* a vector read split inside a header and inside a payload, with one chunk
\* delivered and one chunk of the wrong length
C20_Witness ==
  /\ reader.kind = "readv" /\ reader.status = "Done" /\ reader.calls >= 5
  /\ reader.chunks[1] = <<1, 2>> /\ reader.pChunkStatus[1].done
  /\ reader.pChunkStatus[2].sizeError /\ ~reader.pChunkStatus[2].done

RECURSIVE Frames(_)
\* the chunks of a kXR_readv response body, in the order the server sent
\* them: rlen, offset and the rlen bytes of payload that follow the header
Frames(stream) ==
  IF Len(stream) < HeaderSize THEN << >>
  ELSE LET rlen == stream[1]
       IN  <<[rlen |-> rlen, offset |-> stream[2],
              payload |-> SubSeq(stream, HeaderSize + 1, HeaderSize + rlen)]>>
             \o Frames(SubSeq(stream, HeaderSize + rlen + 1, Len(stream)))

\* the server chunks answering the requested chunk i, and those that name
\* its offset with another length
Answers(i) ==
  {k \in 1..Len(Frames(socket.stream)) :
     /\ Frames(socket.stream)[k].offset = ChunkList[i].offset
     /\ Frames(socket.stream)[k].rlen = ChunkList[i].length}

WrongSize(i) ==
  {k \in 1..Len(Frames(socket.stream)) :
     /\ Frames(socket.stream)[k].offset = ChunkList[i].offset
     /\ Frames(socket.stream)[k].rlen # ChunkList[i].length}

C22_MergeReplace ==
  /\ [](cgi.replace /\ cgi.calls >= 1 =>
          /\ DOMAIN cgi.cgi1 = DOMAIN cgi.before \cup DOMAIN cgi.cgi2
          /\ \A k \in DOMAIN cgi.cgi2 : cgi.cgi1[k] = cgi.cgi2[k]
          /\ \A k \in DOMAIN cgi.before \ DOMAIN cgi.cgi2 :
               cgi.cgi1[k] = cgi.before[k])
  /\ [][cgi.replace /\ cgi.calls >= 1 => cgi'.cgi1 = cgi.cgi1]_vars

\* a value was replaced, a key was kept and a key was added, twice over
C22_Witness ==
  /\ cgi.replace /\ cgi.calls = 2
  /\ cgi.before = [k \in {"j", "k"} |-> <<"v">>]
  /\ cgi.cgi2 = [k \in {"k"} |-> <<"w">>]
  /\ cgi.cgi1 = [k \in {"j", "k"} |-> IF k = "j" THEN <<"v">> ELSE <<"w">>]

\* C23: a rewrite of a path-carrying request sets dlen to the old dlen less
\* the length of the old path plus the length of the path with parameters
\* that is written, and the buffer to 24 + dlen bytes; dlen is the length
\* of the body before and after every rewrite.
C23_DlenIsBodyLength ==
  /\ [](msg.requestid \in PathRequests =>
          /\ msg.dlen = Len(msg.body)
          /\ msg.size = 24 + msg.dlen)
  /\ [][(msg.requestid \in PathRequests /\ msg'.rewrites # msg.rewrites) =>
          /\ msg'.dlen = msg.dlen - msg'.length + Len(msg'.written)
          /\ msg'.length = Len(msg.body) - Skipped(msg)
          /\ msg'.body = SubSeq(msg.body, 1, Skipped(msg)) \o msg'.written]_vars

\* an open whose path had a parameter was rewritten twice and grew by a
\* second parameter and an appended value
C23_Witness ==
  /\ msg.requestid = "kXR_open" /\ msg.rewrites = 2
  /\ msg.body = <<"/", "a", "?", "j", "=", "v", "&",
                  "k", "=", "v", ",", "w">>
  /\ msg.dlen = 12 /\ msg.size = 36

\* C29: a rewrite changes the body, the size and dlen only of a chmod,
\* mkdir, mv, open, rm, rmdir, stat or truncate request; a request of
\* another type is left as it is, whatever CGI, flag and path are given.
C29_OnlyPathRequestsRewritten ==
  [][(msg'.rewrites # msg.rewrites) =>
       /\ msg.requestid \notin PathRequests =>
            /\ msg'.body = msg.body
            /\ msg'.size = msg.size
            /\ msg'.dlen = msg.dlen
       /\ msg'.body # msg.body =>
            msg.requestid \in {"kXR_chmod", "kXR_mkdir", "kXR_mv", "kXR_open",
                               "kXR_rm", "kXR_rmdir", "kXR_stat",
                               "kXR_truncate"}
       /\ msg'.requestid = msg.requestid]_vars

\* a dirlist request, which carries a path, went through two rewrites
C29_Witness ==
  /\ msg.requestid = "kXR_dirlist" /\ msg.rewrites = 2
  /\ msg.body = <<"/", "a", "?", "k", "=", "v">> /\ msg.dlen = 6

\* C30: a rewrite of a kXR_mv request keeps the source path and the space
\* behind it, and the length it computes for the path to rewrite is
\* between 0 and dlen, for a body with and without a space.
C30_MvLengthInRange ==
  [][(msg.requestid = "kXR_mv" /\ msg'.rewrites # msg.rewrites) =>
       /\ msg'.length \in 0..msg.dlen
       /\ ~msg'.crashed
       /\ SubSeq(msg'.body, 1, Skipped(msg)) =
            SubSeq(msg.body, 1, Skipped(msg))]_vars

\* C28: MergeCGI with replace = false appends the incoming value behind a
\* comma to a value that is there and not empty, takes the incoming value
\* for a key that is absent or has an empty value, keeps every other key,
\* drops nothing of what was there, and leaves the incoming map alone.
C28_MergeAppend ==
  [][(~cgi.replace /\ cgi'.calls # cgi.calls) =>
       /\ DOMAIN cgi'.cgi1 = DOMAIN cgi.cgi1 \cup DOMAIN cgi.cgi2
       /\ \A k \in DOMAIN cgi.cgi2 :
            cgi'.cgi1[k] =
              IF k \in DOMAIN cgi.cgi1 /\ cgi.cgi1[k] # << >>
                THEN cgi.cgi1[k] \o <<",">> \o cgi.cgi2[k]
                ELSE cgi.cgi2[k]
       /\ \A k \in DOMAIN cgi.cgi1 \ DOMAIN cgi.cgi2 :
            cgi'.cgi1[k] = cgi.cgi1[k]
       /\ \A k \in DOMAIN cgi.cgi1 :
            SubSeq(cgi'.cgi1[k], 1, Len(cgi.cgi1[k])) = cgi.cgi1[k]
       /\ cgi'.cgi2 = cgi.cgi2]_vars

\* merged twice: one value appended twice, one empty value filled and then
\* appended to
C28_Witness ==
  /\ ~cgi.replace /\ cgi.calls = 2
  /\ cgi.before = [k \in {"j", "k"} |-> IF k = "j" THEN << >> ELSE <<"v">>]
  /\ cgi.cgi2 = [k \in {"j", "k"} |-> <<"w">>]
  /\ cgi.cgi1 = [k \in {"j", "k"} |->
                   IF k = "j" THEN <<"w", ",", "w">>
                   ELSE <<"v", ",", "w", ",", "w">>]

\* C27: ProcessSendParams leaves a timeout, an expiration and a redirect
\* limit that are not zero as they are, sets a zero expiration to the
\* current time plus the timeout it ends with, and applied again to its
\* result, at any later time, changes nothing.
C27_ProcessSendParamsFillsZeros ==
  [][(pc' \in {"send", "processed"} /\ pc' # pc) =>
       /\ sendParams.timeout # 0 => sendParams'.timeout = sendParams.timeout
       /\ sendParams.expires # 0 => sendParams'.expires = sendParams.expires
       /\ sendParams.redirectLimit # 0 =>
            sendParams'.redirectLimit = sendParams.redirectLimit
       /\ sendParams.timeout = 0 => sendParams'.timeout = EnvRequestTimeout
       /\ sendParams.redirectLimit = 0 =>
            sendParams'.redirectLimit = EnvRedirectLimit
       /\ sendParams.expires = 0 =>
            sendParams'.expires = now + sendParams'.timeout
       /\ sendParams'.loadBalancer = sendParams.loadBalancer
       /\ sendParams'.sessionId = sendParams.sessionId
       /\ pc' = "processed" => sendParams' = sendParams]_vars

\* timeout and expiration were filled in at time 2 and the parameters were
\* processed again at time 3; the redirect limit is the caller's
C27_Witness ==
  /\ pc = "processed" /\ now = 3
  /\ sendParams.timeout = EnvRequestTimeout
  /\ sendParams.expires = 2 + EnvRequestTimeout
  /\ sendParams.redirectLimit = MaxRedirectLimit

\* C24: a handler has a load balancer from its construction exactly when
\* the caller gave a valid one, an invalid one leaves flag and stored URL
\* as constructed; later the flag is set only by the first redirect that
\* is followed, which stores the origin, and a set flag stays set with the
\* stored URL unchanged.
C24_LoadBalancerFlagMonotonic ==
  /\ [][(~h.alive /\ h'.alive) =>
          /\ h'.pHasLoadBalancer = (sendParams.loadBalancer # NoHost)
          /\ h'.pLoadBalancer = sendParams.loadBalancer]_vars
  /\ [][(h.alive /\ h'.alive /\ h.pHasLoadBalancer) =>
          /\ h'.pHasLoadBalancer
          /\ h'.pLoadBalancer = h.pLoadBalancer]_vars
  /\ [][(h.alive /\ h'.alive /\ ~h.pHasLoadBalancer /\ h'.pHasLoadBalancer) =>
          /\ hist.followed = 0 /\ hist'.followed = 1
          /\ h.pUrl = Origin /\ h'.pLoadBalancer = Origin]_vars
  /\ [](h.alive => (h.pHasLoadBalancer <=> h.pLoadBalancer # NoHost))

\* sent without a load balancer and redirected twice: the origin is the
\* load balancer since the first redirect
C24_Witness ==
  /\ h.alive /\ h.state = "InFlight" /\ sendParams.loadBalancer = NoHost
  /\ h.pHasLoadBalancer /\ h.pLoadBalancer = Origin
  /\ hist.followed = 2 /\ h.pUrl # Origin

\* C25: SendMessage returns OK exactly when it leaves a handler installed;
\* when PostMaster.Send fails the ResponseHandler is not called, the SID
\* that was allocated is released while the request buffer is still
\* there, the handler and its reference cell are deleted, the request is
\* freed unless it carries a session id, and nothing happens afterwards.
C25_SendFailureOnlyInStatus ==
  /\ [][(pc = "send" /\ pc' # pc) =>
          /\ pc' \in {"sent", "failed"}
          /\ (pc' = "sent") <=> h'.alive
          /\ (pc' = "sent") <=> (cell'.count = 1 /\ cell'.deleted = 0)
          /\ cb' = cb /\ cb.count = 0 /\ tasks' = tasks
          /\ (pc' = "failed" /\ sidLog' # sidLog) =>
               /\ sidLog' = <<<<"alloc", Origin>>, <<"release", Origin>>>>
               /\ h'.requestFreed = IF sendParams.sessionId THEN 0 ELSE 1
               /\ cell'.deleted = 1 /\ cell'.count = 0]_vars
  /\ [](pc = "failed" =>
          /\ cb.count = 0 /\ ~h.alive /\ cell.count = 0 /\ tasks = {}
          /\ HeldAfter(sidLog, {}) = {})
  /\ [][pc = "failed" => UNCHANGED vars]_vars

\* Send failed for a request without a session id: SID released, handler
\* and request gone, the ResponseHandler not called
C25_Witness ==
  /\ pc = "failed" /\ ~sendParams.sessionId
  /\ sidLog = <<<<"alloc", Origin>>, <<"release", Origin>>>>
  /\ h.requestFreed = 1 /\ cell.deleted = 1 /\ cb.count = 0

\* C26: RedirectMessage makes no SIDManager call, whether Redirect is
\* accepted or fails; the handler it creates has no SID manager, and the
\* first SIDManager call for the request is the allocation at the endpoint
\* it is first routed to; no SID is released that was not allocated.
C26_RedirectMessageHoldsNoSid ==
  /\ [][(pc = "send" /\ pc' # pc) =>
          /\ sidLog' = << >>
          /\ h'.pSidMgr = NoHost
          /\ (pc' = "sent") <=> h'.alive
          /\ cb' = cb]_vars
  /\ [](pc = "failed" => sidLog = << >> /\ ~h.alive /\ cb.count = 0)
  /\ []((h.alive /\ h.pHosts = <<Origin>>) =>
          h.pSidMgr = NoHost /\ sidLog = << >>)
  /\ [](sidLog # << >> =>
          /\ Head(sidLog)[1] = "alloc" /\ Len(cb.hosts) # 1
          /\ (h.alive => Len(h.pHosts) >= 2 /\ Head(sidLog)[2] = h.pHosts[2]))
  /\ [](Paired(sidLog, {}))

\* the virtual redirector answered with an error: the result was delivered
\* and the handler destroyed without any SIDManager call
C26_Witness ==
  /\ pc = "sent" /\ ~h.alive /\ cb.count = 1
  /\ cb.status = "errErrorResponse" /\ cb.hosts = <<Origin>>
  /\ sidLog = << >>

----------------------------------------------------------------------------
\* C31: CreateXAttrVec returns errInvalidArgs when there are more than
\* kXR_faMaxVars attributes, or when the names with 3 bytes each, or the
\* values with 4 bytes each, add up to more than their limit. In every such
\* case, and for an empty list, the output vector is as it was. When a
\* list that is not empty is accepted, the vector has exactly as many
\* bytes as the names and the values add up to, overhead included.
NamesOf(x) ==
  IF x.overload = "attrs"
  THEN [i \in 1..Len(x.attrs) |-> x.attrs[i].xattr_name]
  ELSE x.attrs

ValuesOf(x) ==
  IF x.overload = "attrs"
  THEN [i \in 1..Len(x.attrs) |-> x.attrs[i].xattr_value]
  ELSE << >>

RECURSIVE TotalLength(_, _)
TotalLength(strings, overhead) ==
  IF strings = << >> THEN 0
  ELSE Len(strings[1]) + overhead
         + TotalLength(SubSeq(strings, 2, Len(strings)), overhead)

C31_XAttrVecLimits ==
  xattr.status # "none" =>
    /\ ( \/ Len(xattr.attrs) > kXR_faMaxVars
         \/ TotalLength(NamesOf(xattr), 3) > kXR_faMaxNlen
         \/ TotalLength(ValuesOf(xattr), 4) > kXR_faMaxVlen )
         => xattr.status = "errInvalidArgs"
    /\ xattr.status = "errInvalidArgs" \/ xattr.attrs = << >>
         => xattr.avec = xattr.before
    /\ xattr.status = "OK" /\ xattr.attrs # << >>
         => Len(xattr.avec) = TotalLength(NamesOf(xattr), 3)
                                + TotalLength(ValuesOf(xattr), 4)

\* C31 witness: two attributes are accepted into a vector that was longer
\* than the names and values need
C31_Witness ==
  /\ xattr.overload = "attrs"
  /\ xattr.status = "OK"
  /\ Len(xattr.attrs) = 2
  /\ Len(xattr.before) > Len(xattr.avec)
  /\ Len(xattr.avec) = TotalLength(NamesOf(xattr), 3)
                         + TotalLength(ValuesOf(xattr), 4)

====
